---------------------------- MODULE Spec2Model ----------------------------
(***************************************************************************)
(* PACE promotion-eligibility tool: the policy tables (constants.py), the  *)
(* eligibility evaluator (board_filter), the roster pipeline               *)
(* (roster_processor) behind the upload handler (main.py), and the HYT     *)
(* exemption test harness (hyt_test_exemption.py).                         *)
(*                                                                         *)
(* Calendar dates are integers yyyymmdd, so date order is integer order.   *)
(* Date strings ("%d-%b-%Y") are triples <<day, month-abbreviation, year>>.*)
(***************************************************************************)
EXTENDS Integers, Sequences, FiniteSets, TLC

(***************************************************************************)
(* Bounds of the model.                                                    *)
(***************************************************************************)
NumYears == 2
MaxRows == 2
MaxCount == 25

Years == 2024 .. (2024 + NumYears - 1)

None == "None"

(***************************************************************************)
(* Calendar arithmetic (datetime, dateutil.relativedelta).                 *)
(***************************************************************************)
MkDate(y, m, d) == y * 10000 + m * 100 + d
YearOf(date) == date \div 10000
MonthOf(date) == (date \div 100) % 100
DayOf(date) == date % 100

IsLeap(y) == (y % 4 = 0 /\ y % 100 # 0) \/ y % 400 = 0

DaysInMonth(y, m) ==
    IF m = 2 THEN (IF IsLeap(y) THEN 29 ELSE 28)
    ELSE IF m \in {4, 6, 9, 11} THEN 30 ELSE 31

Min(a, b) == IF a <= b THEN a ELSE b

\* date + relativedelta(months=n), n of either sign: the month is moved and
\* the day is clamped to the last day of the month reached.
AddMonths(date, n) ==
    LET total == YearOf(date) * 12 + (MonthOf(date) - 1) + n
        y == total \div 12
        m == (total % 12) + 1
    IN MkDate(y, m, Min(DayOf(date), DaysInMonth(y, m)))

\* date + relativedelta(years=n)
AddYears(date, n) == AddMonths(date, 12 * n)

\* date + one day, date - one day
NextDay(date) ==
    LET y == YearOf(date)
        m == MonthOf(date)
        d == DayOf(date)
    IN IF d < DaysInMonth(y, m) THEN MkDate(y, m, d + 1)
       ELSE IF m < 12 THEN MkDate(y, m + 1, 1)
       ELSE MkDate(y + 1, 1, 1)

PrevDay(date) ==
    LET y == YearOf(date)
        m == MonthOf(date)
        d == DayOf(date)
    IN IF d > 1 THEN MkDate(y, m, d - 1)
       ELSE IF m > 1 THEN MkDate(y, m - 1, DaysInMonth(y, m - 1))
       ELSE MkDate(y - 1, 12, 31)

(***************************************************************************)
(* "%d-%b-%Y" (DATE_FORMAT_INPUT): strftime writes the title-case month    *)
(* abbreviation, strptime reads it in any case and rejects a month it does *)
(* not know and a day the month does not have.                             *)
(***************************************************************************)
MonthAbbr == <<"Jan", "Feb", "Mar", "Apr", "May", "Jun",
               "Jul", "Aug", "Sep", "Oct", "Nov", "Dec">>
MonthAbbrUpper == <<"JAN", "FEB", "MAR", "APR", "MAY", "JUN",
                    "JUL", "AUG", "SEP", "OCT", "NOV", "DEC">>

DATE_FORMAT_INPUT == "%d-%b-%Y"

strftime(date) == <<DayOf(date), MonthAbbr[MonthOf(date)], YearOf(date)>>

MonthNumber(b) ==
    IF \E i \in 1..12 : MonthAbbr[i] = b \/ MonthAbbrUpper[i] = b
    THEN CHOOSE i \in 1..12 : MonthAbbr[i] = b \/ MonthAbbrUpper[i] = b
    ELSE 0

\* A date that could not be read, and a date that is absent (None).
ParseError == -1
NoDate == 0

strptime(s) ==
    LET m == MonthNumber(s[2])
    IN IF m = 0 \/ s[3] < 1 \/ s[3] > 9999 THEN ParseError
       ELSE IF s[1] < 1 \/ s[1] > DaysInMonth(s[3], m) THEN ParseError
       ELSE MkDate(s[3], m, s[1])

(***************************************************************************)
(* Policy tables (constants.py).  A table is a function on its keys;       *)
(* dict.get of a key that is absent gives None.                            *)
(***************************************************************************)
SCODS ==
    ("SRA" :> <<31, "MAR">>) @@ ("SSG" :> <<31, "JAN">>) @@
    ("TSG" :> <<30, "NOV">>) @@ ("MSG" :> <<30, "SEP">>) @@
    ("SMS" :> <<31, "JUL">>)

\* TIG with the staff-sergeant base date moved before the closeout month.
TIG_ssg_january ==
    ("AB" :> <<1, "FEB">>) @@ ("AMN" :> <<1, "FEB">>) @@
    ("A1C" :> <<1, "FEB">>) @@ ("SRA" :> <<1, "FEB">>) @@
    ("SSG" :> <<1, "JAN">>) @@ ("TSG" :> <<1, "JUL">>) @@
    ("MSG" :> <<1, "JUL">>) @@ ("SMS" :> <<1, "MAR">>)

TIG ==
    ("AB" :> <<1, "FEB">>) @@ ("AMN" :> <<1, "FEB">>) @@
    ("A1C" :> <<1, "FEB">>) @@ ("SRA" :> <<1, "FEB">>) @@
    ("SSG" :> <<1, "AUG">>) @@ ("TSG" :> <<1, "JUL">>) @@
    ("MSG" :> <<1, "JUL">>) @@ ("SMS" :> <<1, "MAR">>)

\* TIG_MONTHS_REQUIRED with one more month asked of a staff sergeant.
TIG_MONTHS_REQUIRED_ssg_24 ==
    ("AB" :> 6) @@ ("AMN" :> 6) @@ ("A1C" :> 10) @@ ("SRA" :> 6) @@
    ("SSG" :> 24) @@ ("TSG" :> 24) @@ ("MSG" :> 20) @@ ("SMS" :> 21)

TIG_MONTHS_REQUIRED ==
    ("AB" :> 6) @@ ("AMN" :> 6) @@ ("A1C" :> 10) @@ ("SRA" :> 6) @@
    ("SSG" :> 23) @@ ("TSG" :> 24) @@ ("MSG" :> 20) @@ ("SMS" :> 21)

\* TAFMSD with the fractional requirements rounded up to whole years.
TAFMSD_whole_years ==
    ("AB" :> 100) @@ ("AMN" :> 100) @@ ("A1C" :> 200) @@ ("SRA" :> 300) @@
    ("SSG" :> 500) @@ ("TSG" :> 800) @@ ("MSG" :> 1100) @@ ("SMS" :> 1400)

\* Years of service required, in hundredths of a year (0.25 is 25, 5 is 500).
TAFMSD ==
    ("AB" :> 25) @@ ("AMN" :> 50) @@ ("A1C" :> 125) @@ ("SRA" :> 300) @@
    ("SSG" :> 500) @@ ("TSG" :> 800) @@ ("MSG" :> 1100) @@ ("SMS" :> 1400)

MDOS ==
    ("AB" :> <<1, "SEP">>) @@ ("AMN" :> <<1, "SEP">>) @@
    ("A1C" :> <<1, "SEP">>) @@ ("SRA" :> <<1, "SEP">>) @@
    ("SSG" :> <<1, "AUG">>) @@ ("TSG" :> <<1, "AUG">>) @@
    ("MSG" :> <<1, "APR">>) @@ ("SMS" :> <<1, "JAN">>)

MAIN_HIGHER_TENURE ==
    ("AB" :> 6) @@ ("AMN" :> 6) @@ ("A1C" :> 8) @@ ("SRA" :> 10) @@
    ("SSG" :> 20) @@ ("TSG" :> 22) @@ ("MSG" :> 24) @@ ("SMS" :> 26)

\* EXCEPTION_HIGHER_TENURE giving a staff sergeant fewer years than the
\* standard table.
EXCEPTION_HIGHER_TENURE_ssg_18 ==
    ("AB" :> 8) @@ ("AMN" :> 8) @@ ("A1C" :> 10) @@ ("SRA" :> 12) @@
    ("SSG" :> 18) @@ ("TSG" :> 24) @@ ("MSG" :> 26) @@ ("SMS" :> 28)

EXCEPTION_HIGHER_TENURE ==
    ("AB" :> 8) @@ ("AMN" :> 8) @@ ("A1C" :> 10) @@ ("SRA" :> 12) @@
    ("SSG" :> 22) @@ ("TSG" :> 24) @@ ("MSG" :> 26) @@ ("SMS" :> 28)

\* PAFSC_MAP asking a staff sergeant for the level of a senior airman.
PAFSC_MAP_ssg_5 ==
    ("AB" :> "3") @@ ("AMN" :> "3") @@ ("A1C" :> "3") @@ ("SRA" :> "5") @@
    ("SSG" :> "5") @@ ("TSG" :> "7") @@ ("MSG" :> "7") @@ ("SMS" :> "9")

PAFSC_MAP ==
    ("AB" :> "3") @@ ("AMN" :> "3") @@ ("A1C" :> "3") @@ ("SRA" :> "5") @@
    ("SSG" :> "7") @@ ("TSG" :> "7") @@ ("MSG" :> "7") @@ ("SMS" :> "9")

\* RE_CODES without its first and last codes.
RE_CODES_shortened ==
    ("2B" :> "Discharged, General.") @@
    ("2C" :> "Involuntary separation.") @@
    ("2F" :> "Undergoing Rehab") @@
    ("2G" :> "Substance Abuse, Drugs") @@
    ("2H" :> "Substance Abuse, Alcohol") @@
    ("2J" :> "Under investigation") @@
    ("2K" :> "Involuntary Separation.") @@
    ("2M" :> "Sentenced under UCMJ") @@
    ("2P" :> "AWOL; deserter.") @@
    ("2W" :> "Retired and recalled to AD") @@
    ("2X" :> "Not selected for Reenlistment.") @@
    ("4H" :> "Article 15.") @@
    ("4I" :> "Control Roster.") @@
    ("4L" :> "Separated, Commissioning program.") @@
    ("4M" :> "Breach of enlistment.")

RE_CODES ==
    ("2A" :> "AFPC Denied Reenlistment") @@
    ("2B" :> "Discharged, General.") @@
    ("2C" :> "Involuntary separation.") @@
    ("2F" :> "Undergoing Rehab") @@
    ("2G" :> "Substance Abuse, Drugs") @@
    ("2H" :> "Substance Abuse, Alcohol") @@
    ("2J" :> "Under investigation") @@
    ("2K" :> "Involuntary Separation.") @@
    ("2M" :> "Sentenced under UCMJ") @@
    ("2P" :> "AWOL; deserter.") @@
    ("2W" :> "Retired and recalled to AD") @@
    ("2X" :> "Not selected for Reenlistment.") @@
    ("4H" :> "Article 15.") @@
    ("4I" :> "Control Roster.") @@
    ("4L" :> "Separated, Commissioning program.") @@
    ("4M" :> "Breach of enlistment.") @@
    ("4N" :> "Convicted, Civil Court.")

EXCEPTION_HYT_START_DATE == MkDate(2023, 12, 8)
EXCEPTION_HYT_END_DATE == MkDate(2026, 9, 30)

\* The threshold one too high.
SMALL_UNIT_THRESHOLD_off_by_one == 10 + 1
SMALL_UNIT_THRESHOLD == 10


(***************************************************************************)
(* Results of an evaluation.  category is ELIGIBLE, INELIGIBLE,            *)
(* BELOW_THE_ZONE, or ERROR for a row that cannot be evaluated.            *)
(***************************************************************************)
Eligible == [category |-> "ELIGIBLE", eligible |-> TRUE, reason |-> None]
Ineligible(why) == [category |-> "INELIGIBLE", eligible |-> FALSE, reason |-> why]
BelowTheZone(why) == [category |-> "BELOW_THE_ZONE", eligible |-> FALSE, reason |-> why]
StructuralError(why) == [category |-> "ERROR", eligible |-> FALSE, reason |-> why]

REASON_UIF == "UIF pending"
REASON_AFSC == "Awaiting upgrade"
REASON_TIG == "Time in grade"
REASON_BTZ == "Below the zone"
REASON_TIS == "Time in service"
REASON_HYT == "Higher tenure"
REASON_CONFIG == "Unknown grade or cycle"
REASON_DATE == "Invalid date"
REASON_MISSING == "Missing required field"
REASON_GRADE == "Invalid grade"

\* 'tenure' in reason.lower()
MentionsTenure(reason) == reason = REASON_HYT

(***************************************************************************)
(* Cycle dates.                                                            *)
(***************************************************************************)
\* datetime.strptime(f'{SCODS.get(grade)}-{year}', "%d-%b-%Y")
scod_date(grade, year) ==
    IF grade \in DOMAIN SCODS
    THEN strptime(<<SCODS[grade][1], SCODS[grade][2], year>>)
    ELSE ParseError

\* The month/day of a base-date table placed in the board year, or in the
\* year after it when its month falls before the grade's closeout month.
base_date(table, grade, year) ==
    LET md == table[grade]
        closeout == scod_date(grade, year)
    IN IF MonthNumber(md[2]) < MonthOf(closeout)
       THEN strptime(<<md[1], md[2], year + 1>>)
       ELSE strptime(<<md[1], md[2], year>>)

tig_base_date(grade, year) == base_date(TIG, grade, year)
mdos_base_date(grade, year) == base_date(MDOS, grade, year)

\* Early-promotion margin of the time-in-grade check, in whole months.
BTZ_MARGIN_MONTHS == 6

\* The latest date of rank that meets time in grade.
tig_required_dor(grade, year) ==
    AddMonths(tig_base_date(grade, year), 0 - TIG_MONTHS_REQUIRED[grade])

\* Years of the TAFMSD table as whole months (0.25 -> 3, 1.25 -> 15, 5 -> 60).
tis_months(grade) == (TAFMSD[grade] * 12) \div 100

tis_date(tafmsd, grade) == AddMonths(tafmsd, tis_months(grade))

\* The cutoff the higher-tenure date is compared with: a date of the cycle,
\* its closeout date or its MDOS base date according to the rule in force.
CutoffRules == {"SCOD", "MDOS"}

hyt_cutoff(rule, cycle, year) ==
    IF rule = "SCOD" THEN scod_date(cycle, year) ELSE mdos_base_date(cycle, year)

(***************************************************************************)
(* hyt_test_exemption.py: the harness's own HYT dates and window test.     *)
(***************************************************************************)
expected_hyt_date(tafmsd, grade) == AddYears(tafmsd, MAIN_HIGHER_TENURE[grade])
\* The exception date taken from the standard table.
exception_hyt_date_main_table(tafmsd, grade) ==
    AddYears(tafmsd, MAIN_HIGHER_TENURE[grade])
exception_hyt_date(tafmsd, grade) == AddYears(tafmsd, EXCEPTION_HIGHER_TENURE[grade])
\* The window test with its two ends included.
main_hyt_in_exemption_closed(hyt) ==
    EXCEPTION_HYT_START_DATE <= hyt /\ hyt <= EXCEPTION_HYT_END_DATE
main_hyt_in_exemption(hyt) ==
    EXCEPTION_HYT_START_DATE < hyt /\ hyt < EXCEPTION_HYT_END_DATE

(***************************************************************************)
(* The evaluator's checks, each on a parsed member record m.               *)
(***************************************************************************)
KnownGrade(grade) ==
    /\ grade \in DOMAIN SCODS
    /\ grade \in DOMAIN TIG
    /\ grade \in DOMAIN TIG_MONTHS_REQUIRED
    /\ grade \in DOMAIN TAFMSD
    /\ grade \in DOMAIN MDOS
    /\ grade \in DOMAIN MAIN_HIGHER_TENURE
    /\ grade \in DOMAIN EXCEPTION_HIGHER_TENURE

KnownCycle(cycle) ==
    /\ cycle \in DOMAIN SCODS
    /\ cycle \in DOMAIN PAFSC_MAP
    /\ cycle \in DOMAIN MDOS

fails_re(m) == m.re_status \in DOMAIN RE_CODES

fails_uif(m, cycle, year) ==
    /\ m.uif_code # None
    /\ m.uif_disposition_date # NoDate
    /\ m.uif_disposition_date >= scod_date(cycle, year)

skill_level(afsc) == IF Len(afsc) >= 5 THEN afsc[5] ELSE None

afsc_matches(afsc, cycle) == skill_level(afsc) = PAFSC_MAP[cycle]

fails_afsc(m, cycle) ==
    /\ ~afsc_matches(m.pafsc, cycle)
    /\ \A i \in 1..Len(m.secondary) : ~afsc_matches(m.secondary[i], cycle)

fails_tig(m, year) == m.date_of_rank > tig_required_dor(m.grade, year)

within_btz_margin(m, year) ==
    m.date_of_rank < AddMonths(tig_required_dor(m.grade, year), BTZ_MARGIN_MONTHS)

fails_tis(m, year) == tis_date(m.tafmsd, m.grade) > mdos_base_date(m.grade, year)

standard_hyt_date(m) == AddYears(m.tafmsd, MAIN_HIGHER_TENURE[m.grade])

hyt_exemption_applies(m) ==
    /\ EXCEPTION_HYT_START_DATE < standard_hyt_date(m)
    /\ standard_hyt_date(m) < EXCEPTION_HYT_END_DATE

effective_hyt_date(m) ==
    IF hyt_exemption_applies(m)
    THEN AddYears(m.tafmsd, EXCEPTION_HIGHER_TENURE[m.grade])
    ELSE standard_hyt_date(m)

\* The higher-tenure comparison turned round.
fails_hyt_reversed(m, cycle, year, rule) ==
    effective_hyt_date(m) > hyt_cutoff(rule, cycle, year)
fails_hyt(m, cycle, year, rule) == effective_hyt_date(m) <= hyt_cutoff(rule, cycle, year)

\* The checks with an unknown grade or cycle given a verdict of its own.
evaluate_defaulting(m, cycle, year, rule) ==
    IF ~KnownGrade(m.grade) \/ ~KnownCycle(cycle) THEN Ineligible(REASON_CONFIG)
    ELSE IF fails_re(m) THEN Ineligible(RE_CODES[m.re_status])
    ELSE IF fails_uif(m, cycle, year) THEN Ineligible(REASON_UIF)
    ELSE IF fails_afsc(m, cycle) THEN Ineligible(REASON_AFSC)
    ELSE IF fails_tig(m, year)
         THEN (IF within_btz_margin(m, year) THEN BelowTheZone(REASON_BTZ)
               ELSE Ineligible(REASON_TIG))
    ELSE IF fails_tis(m, year) THEN Ineligible(REASON_TIS)
    ELSE IF fails_hyt(m, cycle, year, rule) THEN Ineligible(REASON_HYT)
    ELSE Eligible

\* The checks with time in grade tested before the AFSC skill level.
evaluate_tig_first(m, cycle, year, rule) ==
    IF ~KnownGrade(m.grade) \/ ~KnownCycle(cycle) THEN StructuralError(REASON_CONFIG)
    ELSE IF fails_re(m) THEN Ineligible(RE_CODES[m.re_status])
    ELSE IF fails_uif(m, cycle, year) THEN Ineligible(REASON_UIF)
    ELSE IF fails_tig(m, year)
         THEN (IF within_btz_margin(m, year) THEN BelowTheZone(REASON_BTZ)
               ELSE Ineligible(REASON_TIG))
    ELSE IF fails_afsc(m, cycle) THEN Ineligible(REASON_AFSC)
    ELSE IF fails_tis(m, year) THEN Ineligible(REASON_TIS)
    ELSE IF fails_hyt(m, cycle, year, rule) THEN Ineligible(REASON_HYT)
    ELSE Eligible

\* evaluate(record, grade_cycle, board_year): the checks in their fixed order,
\* the first one that fails deciding the result.
evaluate(m, cycle, year, rule) ==
    IF ~KnownGrade(m.grade) \/ ~KnownCycle(cycle) THEN StructuralError(REASON_CONFIG)
    ELSE IF fails_re(m) THEN Ineligible(RE_CODES[m.re_status])
    ELSE IF fails_uif(m, cycle, year) THEN Ineligible(REASON_UIF)
    ELSE IF fails_afsc(m, cycle) THEN Ineligible(REASON_AFSC)
    ELSE IF fails_tig(m, year)
         THEN (IF within_btz_margin(m, year) THEN BelowTheZone(REASON_BTZ)
               ELSE Ineligible(REASON_TIG))
    ELSE IF fails_tis(m, year) THEN Ineligible(REASON_TIS)
    ELSE IF fails_hyt(m, cycle, year, rule) THEN Ineligible(REASON_HYT)
    ELSE Eligible

(***************************************************************************)
(* Parsing of one row's fields into a member record.  A date field is a    *)
(* "%d-%b-%Y" string; NaN is an empty cell.                                *)
(***************************************************************************)
NaN == <<0, "NaN", 0>>
IsNaN(field) == field = NaN
NoAfsc == <<>>

GRADES == {"AB", "AMN", "A1C", "SRA", "SSG", "TSG", "MSG", "SMS"}

parse_optional_date(field) == IF IsNaN(field) THEN NoDate ELSE strptime(field)

\* None when the row parses, otherwise the reason it does not.
parse_failure(row) ==
    IF IsNaN(row.date_of_rank) \/ IsNaN(row.tafmsd) \/ row.grade = None \/ row.pafsc = NoAfsc
    THEN REASON_MISSING
    ELSE IF row.grade \notin GRADES THEN REASON_GRADE
    ELSE IF strptime(row.date_of_rank) = ParseError \/ strptime(row.tafmsd) = ParseError
    THEN REASON_DATE
    ELSE IF parse_optional_date(row.uif_disposition_date) = ParseError THEN REASON_DATE
    ELSE None

parse_row(row) ==
    [grade |-> row.grade,
     date_of_rank |-> strptime(row.date_of_rank),
     tafmsd |-> strptime(row.tafmsd),
     re_status |-> row.re_status,
     uif_code |-> row.uif_code,
     uif_disposition_date |-> parse_optional_date(row.uif_disposition_date),
     pafsc |-> row.pafsc,
     secondary |-> row.secondary]

\* board_filter(grade, year, date_of_rank, ..., four_afsc) on a row's fields.
board_filter(row, cycle, year, rule) ==
    IF parse_failure(row) # None THEN StructuralError(parse_failure(row))
    ELSE evaluate(parse_row(row), cycle, year, rule)

(***************************************************************************)
(* roster_processor: every row is parsed and evaluated in turn; a row that *)
(* cannot be parsed or evaluated goes to the error log and the loop goes   *)
(* on.  Entries name their row by its position in the roster.              *)
(***************************************************************************)
EmptyPartition ==
    [eligible |-> <<>>, ineligible |-> <<>>, btz |-> <<>>, error_log |-> <<>>]

Entry(i, why) == [row |-> i, reason |-> why]

\* classify_row letting a failed row fall through into the ineligible rows.
classify_row_falling_through(acc, i, r) ==
    IF r.category = "ERROR"
    THEN [acc EXCEPT !.error_log = Append(@, Entry(i, r.reason)),
                     !.ineligible = Append(@, Entry(i, r.reason))]
    ELSE IF r.category = "ELIGIBLE"
    THEN [acc EXCEPT !.eligible = Append(@, Entry(i, r.reason))]
    ELSE IF r.category = "BELOW_THE_ZONE"
    THEN [acc EXCEPT !.btz = Append(@, Entry(i, r.reason))]
    ELSE [acc EXCEPT !.ineligible = Append(@, Entry(i, r.reason))]

classify_row(acc, i, r) ==
    IF r.category = "ERROR"
    THEN [acc EXCEPT !.error_log = Append(@, Entry(i, r.reason))]
    ELSE IF r.category = "ELIGIBLE"
    THEN [acc EXCEPT !.eligible = Append(@, Entry(i, r.reason))]
    ELSE IF r.category = "BELOW_THE_ZONE"
    THEN [acc EXCEPT !.btz = Append(@, Entry(i, r.reason))]
    ELSE [acc EXCEPT !.ineligible = Append(@, Entry(i, r.reason))]

RECURSIVE process_rows(_, _, _, _, _, _)
process_rows(rows, i, cycle, year, rule, acc) ==
    IF i > Len(rows) THEN acc
    ELSE process_rows(rows, i + 1, cycle, year, rule,
                      classify_row(acc, i, board_filter(rows[i], cycle, year, rule)))

RECURSIVE SelectEntries(_, _, _)
SelectEntries(entries, rows, units) ==
    IF entries = <<>> THEN <<>>
    ELSE IF rows[Head(entries).row].assigned_pas \in units
    THEN <<Head(entries)>> \o SelectEntries(Tail(entries), rows, units)
    ELSE SelectEntries(Tail(entries), rows, units)

EntryRows(entries) == {entries[k].row : k \in 1..Len(entries)}

\* The units of the eligible rows, and those with fewer eligible rows than the
\* small-unit threshold.
eligible_units(rows, part) == {rows[i].assigned_pas : i \in EntryRows(part.eligible)}

eligible_count(rows, part, unit) ==
    Cardinality({i \in EntryRows(part.eligible) : rows[i].assigned_pas = unit})

small_units(rows, part) ==
    {u \in eligible_units(rows, part) : eligible_count(rows, part, u) < SMALL_UNIT_THRESHOLD}

roster_processor(rows, cycle, year, rule) ==
    LET part == process_rows(rows, 1, cycle, year, rule, EmptyPartition)
        units == eligible_units(rows, part)
        small == small_units(rows, part)
        small_rows == SelectEntries(part.eligible, rows, small)
    IN [eligible |-> part.eligible,
        ineligible |-> part.ineligible,
        btz |-> part.btz,
        error_log |-> part.error_log,
        pascodes |-> units,
        pascode_unit_map |->
            {<<rows[i].assigned_pas, rows[i].assigned_pas_cleartext>> :
                i \in EntryRows(part.eligible)},
        unit_eligible |-> SelectEntries(part.eligible, rows, units \ small),
        small_unit_df |-> [is_none |-> small_rows = <<>>, rows |-> small_rows]]

(***************************************************************************)
(* Inputs: the harness's test members, member rows around each boundary of *)
(* the checks, and the rows of an uploaded roster.                         *)
(***************************************************************************)
TestAfsc == <<"3", "S", "0", "X", "1">>
AfscWith(digit) == <<"-", "3", "S", "0", digit, "1">>

\* create_test_member: dates are formatted with strftime('%d-%b-%Y').
create_test_member(grade, tafmsd_date, dor_date) ==
    [grade |-> grade,
     date_of_rank |-> strftime(dor_date),
     uif_code |-> None,
     uif_disposition_date |-> NaN,
     tafmsd |-> strftime(tafmsd_date),
     re_status |-> None,
     pafsc |-> TestAfsc,
     secondary |-> <<>>]

test_member_1 == create_test_member("SSG", MkDate(2003, 1, 15), MkDate(2018, 6, 1))
test_member_2 == create_test_member("SSG", MkDate(2004, 6, 15), MkDate(2019, 3, 1))
\* Scenario 1 of the specification: TAFMSD 1995-01-15.
scenario_member_1 ==
    [create_test_member("SSG", MkDate(1995, 1, 15), MkDate(2018, 6, 1))
        EXCEPT !.pafsc = AfscWith("7")]

TestMembers == {test_member_1, test_member_2, scenario_member_1}

AdminCases(year) ==
    {<<None, None, NaN>>,
     <<"2A", None, NaN>>,
     <<"4N", None, NaN>>,
     <<None, "1", <<1, "Jan", year + 2>>>>,
     <<"2A", "1", <<1, "Jan", year + 2>>>>,
     <<"9Z", "1", <<1, "Jan", year - 2>>>>}

AfscCases ==
    {<<TestAfsc, <<>>>>,
     <<AfscWith("5"), <<>>>>,
     <<AfscWith("7"), <<>>>>,
     <<AfscWith("9"), <<>>>>,
     <<AfscWith("3"), <<AfscWith("1"), AfscWith("7")>>>>}

DorCases(grade, year) ==
    IF KnownGrade(grade)
    THEN LET r == tig_required_dor(grade, year)
         IN {r, NextDay(r), PrevDay(AddMonths(r, BTZ_MARGIN_MONTHS)),
             AddMonths(r, BTZ_MARGIN_MONTHS)}
    ELSE {MkDate(2018, 6, 1)}

TafmsdCases(grade, cycle, year, rule) ==
    IF KnownGrade(grade) /\ KnownCycle(cycle)
    THEN LET main == MAIN_HIGHER_TENURE[grade]
             exc == EXCEPTION_HIGHER_TENURE[grade]
             k == hyt_cutoff(rule, cycle, year)
             t == AddMonths(mdos_base_date(grade, year), 0 - tis_months(grade))
         IN {AddYears(d, 0 - main) :
                d \in {PrevDay(EXCEPTION_HYT_START_DATE), EXCEPTION_HYT_START_DATE,
                       NextDay(EXCEPTION_HYT_START_DATE),
                       PrevDay(EXCEPTION_HYT_END_DATE), EXCEPTION_HYT_END_DATE,
                       NextDay(EXCEPTION_HYT_END_DATE)}}
            \cup {AddYears(k, 0 - exc), AddYears(NextDay(k), 0 - exc),
                  AddYears(k, 0 - (main + 3))}
            \cup {t, NextDay(t), MkDate(2004, 2, 29)}
    ELSE {MkDate(2004, 6, 15)}

EvalCycles(grade) ==
    IF grade = "MSG" THEN {"MSG", "SMS", "E7"}
    ELSE IF grade \in DOMAIN SCODS THEN {grade}
    ELSE {"SRA"}

MemberRow(grade, dor, tafmsd, admin, afsc) ==
    [grade |-> grade,
     date_of_rank |-> strftime(dor),
     uif_code |-> admin[2],
     uif_disposition_date |-> admin[3],
     tafmsd |-> strftime(tafmsd),
     re_status |-> admin[1],
     pafsc |-> afsc[1],
     secondary |-> afsc[2]]

NoMember == MemberRow(None, MkDate(1, 1, 1), MkDate(1, 1, 1), <<None, None, NaN>>, <<NoAfsc, <<>>>>)

(***************************************************************************)
(* An uploaded roster: rows of member fields with name and unit columns.   *)
(***************************************************************************)
\* ALLOWED_FILE_TYPES letting a PDF through.
ALLOWED_FILE_TYPES_with_pdf ==
    {"text/csv", "application/vnd.openxmlformats-officedocument.spreadsheetml.sheet",
     "application/pdf"}

ALLOWED_FILE_TYPES ==
    {"text/csv", "application/vnd.openxmlformats-officedocument.spreadsheetml.sheet"}

REQUIRED_COLUMNS ==
    {"FULL_NAME", "GRADE", "ASSIGNED_PAS_CLEARTEXT", "DAFSC", "DOR",
     "DATE_ARRIVED_STATION", "TAFMSD", "REENL_ELIG_STATUS", "ASSIGNED_PAS", "PAFSC"}

OPTIONAL_COLUMNS ==
    {"GRADE_PERM_PROJ", "UIF_CODE", "UIF_DISPOSITION_DATE", "2AFSC", "3AFSC", "4AFSC"}

RosterRow(name, pas, grade, dor, tafmsd, re_status, pafsc) ==
    [full_name |-> name,
     assigned_pas |-> pas,
     assigned_pas_cleartext |-> IF pas = "U1" THEN "UNIT ONE" ELSE "UNIT TWO",
     grade |-> grade,
     dafsc |-> "-3S071",
     date_arrived_station |-> "01-JAN-2020",
     date_of_rank |-> dor,
     uif_code |-> None,
     uif_disposition_date |-> NaN,
     tafmsd |-> tafmsd,
     re_status |-> re_status,
     pafsc |-> pafsc,
     secondary |-> <<>>]

\* The lines of the personnel file the rosters are cut from, in file order.
RosterLines ==
    <<RosterRow("FOX", "U1", "SSG", <<2018, "06", 1>>, <<15, "Jun", 2010>>, None, AfscWith("7")),
      RosterRow("HOW", "U1", "CIV", <<1, "Jun", 2018>>, <<15, "Jun", 2010>>, None, AfscWith("7")),
      RosterRow("EASY", "U2", "A1C", <<1, "Jun", 2023>>, <<15, "Jun", 2022>>, None, AfscWith("3")),
      RosterRow("ABLE", "U1", "SSG", <<1, "Jun", 2018>>, <<15, "Jun", 2010>>, None, AfscWith("7")),
      RosterRow("BAKER", "U2", "SSG", <<1, "Jun", 2018>>, <<15, "Jun", 2010>>, "9Z", AfscWith("7")),
      RosterRow("CHARLIE", "U1", "SSG", <<1, "Jun", 2018>>, <<15, "Jan", 2003>>, None, AfscWith("7")),
      RosterRow("DOG", "U1", "SSG", <<1, "Oct", 2022>>, <<15, "Jun", 2010>>, None, AfscWith("7")),
      RosterRow("GEORGE", "U2", "SSG", <<1, "Jun", 2018>>, NaN, None, AfscWith("7"))>>

RosterRows == {RosterLines[k] : k \in 1..Len(RosterLines)}

\* n eligible rows of one unit.
EligibleRows(pas, n) ==
    [i \in 1..n |->
        RosterRow("ABLE", pas, "SSG", <<1, "Jun", 2018>>, <<15, "Jun", 2010>>, None, AfscWith("7"))]

\* Rosters with a unit on either side of the small-unit threshold.
LargeRosters ==
    {EligibleRows("U1", c[1]) \o EligibleRows("U2", c[2]) :
        c \in {<<9, 10>>, <<10, 9>>, <<10, 11>>, <<9, 0>>}}

\* Rosters of at most MaxRows of the lines, in file order.
Rosters ==
    {SelectSeq(RosterLines, LAMBDA r : r \in chosen) :
        chosen \in {c \in SUBSET RosterRows : Cardinality(c) <= MaxRows}}
    \cup LargeRosters

AllColumns == REQUIRED_COLUMNS \cup OPTIONAL_COLUMNS

Files ==
    {[content_type |-> "text/csv", extension |-> ".csv", columns |-> AllColumns, rows |-> r] :
        r \in Rosters}
    \cup
    {[content_type |-> "application/pdf", extension |-> ".csv", columns |-> AllColumns,
      rows |-> <<>>],
     [content_type |-> "text/csv", extension |-> ".txt", columns |-> AllColumns,
      rows |-> <<>>],
     [content_type |-> "text/csv", extension |-> ".xlsx",
      columns |-> AllColumns \ {"UIF_CODE"}, rows |-> <<>>],
     [content_type |-> "text/csv", extension |-> ".csv",
      columns |-> REQUIRED_COLUMNS, rows |-> <<>>],
     [content_type |-> "text/csv", extension |-> ".csv",
      columns |-> AllColumns \ {"TAFMSD"}, rows |-> <<>>]}

\* The files upload_file turns down before it creates a session.
RejectedFiles ==
    {f \in Files : \/ f.content_type \notin ALLOWED_FILE_TYPES
                   \/ f.extension \notin {".csv", ".xlsx"}
                   \/ ~(AllColumns \subseteq f.columns)}

UploadCycles == {"SSG", "E6"}

(***************************************************************************)
(* The rows kept for the report: pdf_df = processed_df[PDF_COLUMNS], and   *)
(* the columns generate_roster_pdf selects for the ineligible rows.        *)
(***************************************************************************)
\* PDF_COLUMNS with the unit code third and the arrival date last.
PDF_COLUMNS_unit_code_third ==
    <<"FULL_NAME", "GRADE", "ASSIGNED_PAS", "DAFSC",
      "ASSIGNED_PAS_CLEARTEXT", "DOR", "TAFMSD", "DATE_ARRIVED_STATION">>

PDF_COLUMNS ==
    <<"FULL_NAME", "GRADE", "DATE_ARRIVED_STATION", "DAFSC",
      "ASSIGNED_PAS_CLEARTEXT", "DOR", "TAFMSD", "ASSIGNED_PAS">>

\* The header printed above the eligible, below-the-zone and senior rater
\* tables.
INITIAL_MEL_HEADER_ROW ==
    <<"FULL NAME", "GRADE", "DAS", "DAFSC", "UNIT", "DOR", "TAFMSD", "PASCODE">>

ineligible_columns ==
    <<"FULL_NAME", "GRADE", "ASSIGNED_PAS", "DAFSC", "ASSIGNED_PAS_CLEARTEXT", "REASON">>

\* The cell of a roster row under a column; REASON is attached by the pipeline.
Cell(row, column, reason) ==
    CASE column = "FULL_NAME" -> row.full_name
      [] column = "GRADE" -> row.grade
      [] column = "DATE_ARRIVED_STATION" -> row.date_arrived_station
      [] column = "DAFSC" -> row.dafsc
      [] column = "ASSIGNED_PAS_CLEARTEXT" -> row.assigned_pas_cleartext
      [] column = "DOR" -> row.date_of_rank
      [] column = "TAFMSD" -> row.tafmsd
      [] column = "ASSIGNED_PAS" -> row.assigned_pas
      [] column = "REASON" -> reason

pdf_row(row) == [k \in 1..Len(PDF_COLUMNS) |-> Cell(row, PDF_COLUMNS[k], None)]

ineligible_row(row, reason) ==
    [k \in 1..Len(ineligible_columns) |-> Cell(row, ineligible_columns[k], reason)]

(***************************************************************************)
(* Sessions (session_manager) and HTTP responses.                          *)
(***************************************************************************)
SessionIds == {"s1"}

NoSession ==
    [live |-> FALSE, rows |-> <<>>, cycle |-> None, year |-> 0,
     eligible |-> <<>>, ineligible |-> <<>>, btz |-> <<>>, error_log |-> <<>>,
     pascodes |-> {}, pascode_unit_map |-> {}, unit_eligible |-> <<>>,
     small_unit_df |-> [is_none |-> TRUE, rows |-> <<>>],
     pascode_map |-> {}, small_unit_sr |-> None, srid_pascode_map |-> {},
     pdf |-> <<>>]

NoResponse ==
    [status |-> 0, message |-> None, error |-> None, session_id |-> None,
     errors |-> <<>>, senior_rater_needed |-> FALSE,
     pascodes |-> {}, pascode_unit_map |-> {}, pdf |-> <<>>]

\* What the model keeps of a request: its endpoint and the file's description.
NoRequest ==
    [endpoint |-> None, content_type |-> None, extension |-> None, columns |-> {},
     session_id |-> None, pascode_info |-> {}]

UploadRequest(file) ==
    [NoRequest EXCEPT !.endpoint = "upload", !.content_type = file.content_type,
                      !.extension = file.extension, !.columns = file.columns]

ErrorResponse(code, text) == [NoResponse EXCEPT !.status = code, !.error = text]

\* create_session, the two update_session calls and roster_processor's writes.
processed_session(file, cyc, yr, rule) ==
    LET out == roster_processor(file.rows, cyc, yr, rule)
    IN [live |-> TRUE, rows |-> file.rows, cycle |-> cyc, year |-> yr,
        eligible |-> out.eligible, ineligible |-> out.ineligible, btz |-> out.btz,
        error_log |-> out.error_log, pascodes |-> out.pascodes,
        pascode_unit_map |-> out.pascode_unit_map,
        unit_eligible |-> out.unit_eligible, small_unit_df |-> out.small_unit_df,
        pascode_map |-> {}, small_unit_sr |-> None, srid_pascode_map |-> {},
        pdf |-> <<>>]

\* The return_object without the session's error log.
upload_response_without_errors(id, session) ==
    [status |-> 200, message |-> "Upload successful.", error |-> None,
     session_id |-> id, errors |-> <<>>,
     senior_rater_needed |-> ~session.small_unit_df.is_none,
     pascodes |-> session.pascodes, pascode_unit_map |-> session.pascode_unit_map,
     pdf |-> <<>>]

\* The return_object of upload_file, built from the stored session.
upload_response(id, session) ==
    [status |-> 200, message |-> "Upload successful.", error |-> None,
     session_id |-> id, errors |-> session.error_log,
     senior_rater_needed |-> ~session.small_unit_df.is_none,
     pascodes |-> session.pascodes, pascode_unit_map |-> session.pascode_unit_map,
     pdf |-> <<>>]

(***************************************************************************)
(* get_promotion_eligibility: the quota of a grouping, a share of its      *)
(* eligible count taken from the percentage curve of the cycle.  The curve *)
(* is policy data.                                                         *)
(***************************************************************************)
\* Must-promote and promote-now percentages of each cycle.
PROMOTION_PERCENT ==
    [c \in DOMAIN SCODS |-> IF c \in {"MSG", "SMS"} THEN <<10, 20>> ELSE <<20, 40>>]

\* The share of the candidates, a fraction counting as one more.
share(count, percent) == (count * percent + 99) \div 100

\* A curve whose figures start again after every ten candidates.
get_promotion_eligibility_wrapping(count, grade_cycle) ==
    <<share(count % 10, PROMOTION_PERCENT[grade_cycle][1]),
      share(count % 10, PROMOTION_PERCENT[grade_cycle][2])>>

get_promotion_eligibility(count, grade_cycle) ==
    <<share(count, PROMOTION_PERCENT[grade_cycle][1]),
      share(count, PROMOTION_PERCENT[grade_cycle][2])>>

(***************************************************************************)
(* generate_roster_pdf: one document per unit code, merged into the report.*)
(***************************************************************************)
\* Unit codes in sorted order.
UnitOrder == <<"U1", "U2">>
Sorted(units) == SelectSeq(UnitOrder, LAMBDA u : u \in units)

Range(seq) == {seq[k] : k \in 1..Len(seq)}

\* The session's frames as lists of rows (values.tolist()).
eligible_data(s) ==
    [k \in 1..Len(s.unit_eligible) |-> pdf_row(s.rows[s.unit_eligible[k].row])]

btz_data(s) == [k \in 1..Len(s.btz) |-> pdf_row(s.rows[s.btz[k].row])]

ineligible_data(s) ==
    [k \in 1..Len(s.ineligible) |->
        ineligible_row(s.rows[s.ineligible[k].row], s.ineligible[k].reason)]

small_unit_data(s) ==
    [k \in 1..Len(s.small_unit_df.rows) |-> pdf_row(s.rows[s.small_unit_df.rows[k].row])]

unique_pascodes(s) ==
    {r[8] : r \in {q \in Range(eligible_data(s)) : Len(q) > 7}}
    \cup {r[3] : r \in {q \in Range(ineligible_data(s)) : Len(q) > 2}}
    \cup {r[8] : r \in {q \in Range(btz_data(s)) : Len(q) > 7}}

\* The rows of a list whose unit-code cell (column number col) is pascode.
pascode_rows(data, col, pascode) ==
    SelectSeq(data, LAMBDA r : Len(r) >= col /\ r[col] = pascode)

Keys(map) == {pair[1] : pair \in map}
Lookup(map, key) == (CHOOSE pair \in map : pair[1] = key)[2]

\* eligible_candidates counted over every row of the unit.
eligible_candidates_all_rows(s, pascode) ==
    Len(pascode_rows(eligible_data(s), 8, pascode))
    + Len(pascode_rows(ineligible_data(s), 3, pascode))
    + Len(pascode_rows(btz_data(s), 8, pascode))

eligible_candidates(s, pascode) == Len(pascode_rows(eligible_data(s), 8, pascode))
\* A document: its file name (kind and unit code), its tables and the quota
\* printed in its footer.
Document(kind, pascode, cycle, eligible, ineligible, btz, quota) ==
    [kind |-> kind, pascode |-> pascode, cycle |-> cycle,
     eligible |-> eligible, ineligible |-> ineligible, btz |-> btz,
     mp |-> quota[1], pn |-> quota[2]]

generate_pascode_pdf(s, pascode) ==
    Document("temp", pascode, s.cycle,
             pascode_rows(eligible_data(s), 8, pascode),
             pascode_rows(ineligible_data(s), 3, pascode),
             pascode_rows(btz_data(s), 8, pascode),
             get_promotion_eligibility(eligible_candidates(s, pascode), s.cycle))

\* temp_<pascode>_small_unit.pdf: the senior rater's table of small-unit rows.
generate_small_unit_pdf(s, pascode) ==
    Document("temp_small_unit", pascode, s.cycle, small_unit_data(s), <<>>, <<>>,
             get_promotion_eligibility(Len(small_unit_data(s)), s.cycle))

\* The unit codes a document is generated for: those with submitted senior
\* rater information and at least one row.
generated_pascodes(s) ==
    SelectSeq(Sorted(unique_pascodes(s)),
              LAMBDA p : /\ p \in Keys(s.pascode_map)
                         /\ \/ pascode_rows(eligible_data(s), 8, p) # <<>>
                            \/ pascode_rows(ineligible_data(s), 3, p) # <<>>
                            \/ pascode_rows(btz_data(s), 8, p) # <<>>)

NoReport == [ok |-> FALSE, pages |-> <<>>, left_on_disk |-> {}]

\* merge_pdfs returns the temporary documents in order and removes their
\* files; the small-unit document is written beside them and is not in the
\* list.
generate_roster_pdf(s) ==
    IF ~s.live THEN NoReport
    ELSE LET order == Sorted(unique_pascodes(s))
             generated == generated_pascodes(s)
         IN IF order = <<>> \/ generated = <<>> THEN NoReport
            ELSE IF s.cycle \notin DOMAIN PROMOTION_PERCENT THEN NoReport
            ELSE [ok |-> TRUE,
                  pages |-> [k \in 1..Len(generated) |->
                                generate_pascode_pdf(s, generated[k])],
                  left_on_disk |->
                      IF /\ order[Len(order)] \in Range(generated)
                         /\ small_unit_data(s) # <<>>
                         /\ s.srid_pascode_map # {}
                      THEN {generate_small_unit_pdf(s, order[Len(order)])}
                      ELSE {}]

(***************************************************************************)
(* submit_pascode_info: the senior rater information of each unit code.    *)
(***************************************************************************)
\* Submitted forms: unit code (or 'small_unit_sr') and senior rater id.
PascodeSubmissions ==
    {{<<"U1", "SR1">>, <<"U2", "SR1">>, <<"small_unit_sr", "SR9">>},
     {<<"U1", "SR1">>, <<"U2", "SR2">>},
     {<<"U1", "SR1">>}}

SubmitRequest(id, info) ==
    [NoRequest EXCEPT !.endpoint = "submit", !.session_id = id, !.pascode_info = info]

submitted_pascode_map(info) == {pair \in info : pair[1] # "small_unit_sr"}

submitted_small_unit_sr(info) ==
    IF "small_unit_sr" \in Keys(info) THEN Lookup(info, "small_unit_sr") ELSE None

\* The two update_session calls made before the session is read back.
with_pascode_info(s, info) ==
    [s EXCEPT !.small_unit_sr =
                  IF submitted_small_unit_sr(info) # None
                  THEN submitted_small_unit_sr(info) ELSE @,
              !.pascode_map = submitted_pascode_map(info)]

\* The grouping with each unit code replacing the list of its senior rater.
srid_pascode_map_overwriting(s) ==
    {<<srid, LET units == Sorted({u \in s.pascodes : Lookup(s.pascode_map, u) = srid})
             IN <<units[Len(units)]>>>> :
        srid \in {Lookup(s.pascode_map, u) : u \in s.pascodes}}

\* srid -> the session's unit codes rated by it, in the order of the loop.
srid_pascode_map(s) ==
    {<<srid, Sorted({u \in s.pascodes : Lookup(s.pascode_map, u) = srid})>> :
        srid \in {Lookup(s.pascode_map, u) : u \in s.pascodes}}

PdfResponse(pages) == [NoResponse EXCEPT !.status = 200, !.pdf = pages]

DownloadRequest(id) == [NoRequest EXCEPT !.endpoint = "download", !.session_id = id]

\* get_pdf_from_redis: the PDF kept under the session's key, if any.
get_pdf_from_redis(store, id) == store[id].pdf

\* Writing a file replaces the file of the same name.
write_files(files, documents) ==
    {f \in files : \A d \in documents : ~(d.kind = f.kind /\ d.pascode = f.pascode)}
    \cup documents

(***************************************************************************)
(* State.                                                                  *)
(***************************************************************************)
VARIABLES
    cutoff_rule,  \* the cutoff rule in force (policy data, fixed)
    pc,           \* "idle", "tested" (harness run), "evaluated"
    member,       \* the row handed to board_filter
    cycle,        \* its grade cycle
    year,         \* its board year
    result,       \* what board_filter returned
    sessions,     \* the session store: session id -> session
    issued,       \* the session ids create_session has handed out
    request,      \* the last HTTP request
    response,     \* the last HTTP response
    disk          \* the documents in the working directory

vars == <<cutoff_rule, pc, member, cycle, year, result, sessions, issued, request, response,
          disk>>

NoResult == [category |-> None, eligible |-> FALSE, reason |-> None]

Init ==
    /\ cutoff_rule \in CutoffRules
    /\ pc = "idle"
    /\ member = NoMember
    /\ cycle = None
    /\ year = 0
    /\ result = NoResult
    /\ sessions = [id \in SessionIds |-> NoSession]
    /\ issued = {}
    /\ request = NoRequest
    /\ response = NoResponse
    /\ disk = {}

\* test_hyt_exemption: board_filter on a test member, board year 2024.
RunTest ==
    /\ pc = "idle"
    /\ \E m \in TestMembers :
        /\ member' = m
        /\ cycle' = m.grade
        /\ year' = 2024
        /\ result' = board_filter(m, m.grade, 2024, cutoff_rule)
    /\ pc' = "tested"
    /\ UNCHANGED <<cutoff_rule, sessions, issued, request, response, disk>>

\* board_filter on one member row.
Evaluate ==
    /\ pc = "idle"
    /\ \E g \in GRADES, y \in Years :
       \E c \in EvalCycles(g), admin \in AdminCases(y), afsc \in AfscCases :
       \E dor \in DorCases(g, y), t \in TafmsdCases(g, c, y, cutoff_rule) :
        /\ member' = MemberRow(g, dor, t, admin, afsc)
        /\ cycle' = c
        /\ year' = y
        /\ result' = board_filter(member', c, y, cutoff_rule)
    /\ pc' = "evaluated"
    /\ UNCHANGED <<cutoff_rule, sessions, issued, request, response, disk>>

Return ==
    /\ pc \in {"tested", "evaluated"}
    /\ pc' = "idle"
    /\ member' = NoMember
    /\ cycle' = None
    /\ year' = 0
    /\ result' = NoResult
    /\ UNCHANGED <<cutoff_rule, sessions, issued, request, response, disk>>

EvalNext == RunTest \/ Evaluate \/ Return

EvalSpec == Init /\ [][EvalNext]_vars

\* The steps of an upload endpoint.  create_session names the session with a
\* fresh identifier, never one it has handed out before; once every
\* identifier of the model is handed out, only the uploads that are turned
\* down remain.  The cycle and the year of the form are first read when the
\* session is written.
Upload(endpoint) ==
    /\ pc = "idle"
    /\ \E file \in (IF issued = SessionIds THEN RejectedFiles ELSE Files) :
        /\ request' = [UploadRequest(file) EXCEPT !.endpoint = endpoint]
        /\ IF file.content_type \notin ALLOWED_FILE_TYPES
           THEN /\ response' = ErrorResponse(400, "Invalid file type. Only CSV or Excel files are allowed.")
                /\ UNCHANGED <<sessions, issued>>
           ELSE IF file.extension \notin {".csv", ".xlsx"}
           THEN /\ response' = ErrorResponse(400, "Unsupported file extension.")
                /\ UNCHANGED <<sessions, issued>>
           ELSE IF ~(AllColumns \subseteq file.columns)
           THEN \* df[REQUIRED_COLUMNS + OPTIONAL_COLUMNS] raises KeyError
                /\ response' = ErrorResponse(500, "Internal Server Error")
                /\ UNCHANGED <<sessions, issued>>
           ELSE \E id \in SessionIds \ issued, cyc \in UploadCycles, yr \in Years :
                /\ issued' = issued \cup {id}
                /\ sessions' = [sessions EXCEPT ![id] = processed_session(file, cyc, yr, cutoff_rule)]
                /\ response' = upload_response(id, sessions'[id])
    /\ UNCHANGED <<cutoff_rule, pc, member, cycle, year, result, disk>>

UploadFile == Upload("upload")

\* POST /api/upload/final-mel: the same steps as upload_file.
UploadFinalMelFile == Upload("upload_final")

\* The session's key reaches its time to live and is dropped.
SessionExpires ==
    /\ \E id \in SessionIds :
        /\ sessions[id].live
        /\ sessions' = [sessions EXCEPT ![id] = NoSession]
    /\ UNCHANGED <<cutoff_rule, pc, member, cycle, year, result, issued, request, response,
                   disk>>

\* POST /api/initial-mel/submit/pascode-info.  The session is updated, read
\* back, its senior raters grouped, and the report generated and returned.
SubmitPascodeInfo ==
    /\ pc = "idle"
    /\ \E id \in SessionIds, info \in PascodeSubmissions :
        /\ request' = SubmitRequest(id, info)
        /\ IF ~sessions[id].live
           THEN \* get_session returns None and session['pascodes'] raises
                /\ response' = ErrorResponse(500, "Internal Server Error")
                /\ UNCHANGED <<sessions, disk>>
           ELSE LET stored == with_pascode_info(sessions[id], info)
                IN IF ~(stored.pascodes \subseteq Keys(stored.pascode_map))
                   THEN \* session['pascode_map'][pascode] raises KeyError
                        /\ sessions' = [sessions EXCEPT ![id] = stored]
                        /\ response' = ErrorResponse(500, "Internal Server Error")
                        /\ UNCHANGED disk
                   ELSE LET grouped == [stored EXCEPT !.srid_pascode_map = srid_pascode_map(stored)]
                            report == generate_roster_pdf(grouped)
                        IN /\ sessions' = [sessions EXCEPT ![id] = grouped]
                           /\ disk' = write_files(disk, report.left_on_disk)
                           /\ response' = IF report.ok THEN PdfResponse(report.pages)
                                          ELSE ErrorResponse(500, "PDF generation failed")
    /\ UNCHANGED <<cutoff_rule, pc, member, cycle, year, result, issued>>

\* GET /api/download/initial-mel/{session_id}.
DownloadInitialMel ==
    /\ pc = "idle"
    /\ \E id \in SessionIds :
        /\ request' = DownloadRequest(id)
        /\ response' = IF get_pdf_from_redis(sessions, id) = <<>>
                       THEN ErrorResponse(404, "PDF not found for this session")
                       ELSE PdfResponse(get_pdf_from_redis(sessions, id))
    /\ UNCHANGED <<cutoff_rule, pc, member, cycle, year, result, sessions, issued, disk>>

Next ==
    \/ UploadFile
    \/ UploadFinalMelFile
    \/ SessionExpires
    \/ SubmitPascodeInfo
    \/ DownloadInitialMel
Spec == Init /\ [][Next]_vars

(***************************************************************************)
(* Properties.                                                             *)
(***************************************************************************)
\* A row is valid when its fields parse and its grade and the run's cycle are
\* configured; any other row fails structurally (a configuration error is
\* surfaced as a structural error).
RowValid(row, cyc) ==
    parse_failure(row) = None /\ KnownGrade(row.grade) /\ KnownCycle(cyc)

Occurrences(entries, i) ==
    Cardinality({k \in 1..Len(entries) : entries[k].row = i})

Categorised(s, i) ==
    Occurrences(s.eligible, i) + Occurrences(s.ineligible, i) + Occurrences(s.btz, i)

LiveSessions == {id \in SessionIds : sessions[id].live}

\* C1: after a roster is processed, every valid row is in exactly one of
\* eligible, ineligible and below-the-zone and not in the error log; every row
\* that fails structurally is in the error log and in none of the three; so
\* |eligible| + |ineligible| + |BTZ| = |input| - |error_log|.
C1_Partition ==
    \A id \in LiveSessions :
        LET s == sessions[id]
        IN /\ \A i \in 1..Len(s.rows) :
                IF RowValid(s.rows[i], s.cycle)
                THEN Categorised(s, i) = 1 /\ Occurrences(s.error_log, i) = 0
                ELSE Categorised(s, i) = 0 /\ Occurrences(s.error_log, i) = 1
           /\ Len(s.eligible) + Len(s.ineligible) + Len(s.btz)
                = Len(s.rows) - Len(s.error_log)

\* C1 witness: a processed roster with a row in a category and a row in the
\* error log.
C1_Witness ==
    \E id \in LiveSessions :
        LET s == sessions[id]
        IN /\ Len(s.rows) >= 2
           /\ Len(s.error_log) > 0
           /\ Len(s.ineligible) + Len(s.btz) > 0

\* C2: a row that fails to parse or to evaluate never aborts the batch: the
\* upload is answered as successful, every row has exactly one verdict or
\* exactly one error entry with its reason, the response lists that entry,
\* and every row after a failing row is processed too.
C2_BatchCompletes ==
    \A id \in LiveSessions :
        LET s == sessions[id]
            Failing == {i \in 1..Len(s.rows) : ~RowValid(s.rows[i], s.cycle)}
        IN response.session_id = id =>
            /\ response.status = 200
            /\ \A i \in 1..Len(s.rows) :
                Categorised(s, i) + Occurrences(s.error_log, i) = 1
            /\ \A i \in Failing :
                /\ Occurrences(response.errors, i) = 1
                /\ \A k \in 1..Len(response.errors) :
                    response.errors[k].row = i => response.errors[k].reason # None
                /\ \A j \in (i + 1)..Len(s.rows) :
                    Categorised(s, j) + Occurrences(response.errors, j) = 1

\* C2 witness: the first row of the roster fails and the row after it has a
\* verdict.
C2_Witness ==
    \E id \in LiveSessions :
        LET s == sessions[id]
        IN /\ response.session_id = id
           /\ Len(s.rows) >= 2
           /\ ~RowValid(s.rows[1], s.cycle)
           /\ Categorised(s, 2) = 1

M == parse_row(member)

Judged == pc # "idle" /\ result.category # "ERROR"
ReachedTIG ==
    Judged /\ ~fails_re(M) /\ ~fails_uif(M, cycle, year) /\ ~fails_afsc(M, cycle)
ReachedTIS == ReachedTIG /\ ~fails_tig(M, year)
ReachedHYT == ReachedTIS /\ ~fails_tis(M, year)

TenureIneligible == result.category = "INELIGIBLE" /\ MentionsTenure(result.reason)
Cutoff == hyt_cutoff(cutoff_rule, cycle, year)

\* The date the higher-tenure check compares with the cutoff, from the
\* harness's own dates: the exception date when the standard date is in the
\* window, the standard date otherwise.
ChosenHytDate ==
    IF main_hyt_in_exemption(expected_hyt_date(M.tafmsd, M.grade))
    THEN exception_hyt_date(M.tafmsd, M.grade)
    ELSE expected_hyt_date(M.tafmsd, M.grade)

\* C3: a record that passed every earlier check is ineligible with a tenure
\* reason exactly when the chosen HYT date (exception date if the standard
\* date tafmsd + MAIN_HIGHER_TENURE[grade] is inside the window, standard date
\* otherwise) is on or before the cutoff.
C3_HigherTenureDate ==
    ReachedHYT => (TenureIneligible <=> ChosenHytDate <= Cutoff)

\* C3 witness: the exemption applies (standard date inside the window) and
\* the exception date, two years later, is still on or before the cutoff.
C3_Witness ==
    /\ ReachedHYT
    /\ main_hyt_in_exemption(expected_hyt_date(M.tafmsd, M.grade))
    /\ exception_hyt_date(M.tafmsd, M.grade) = Cutoff
    /\ TenureIneligible

\* C4: the exemption applies exactly to standard HYT dates strictly between
\* 2023-12-08 and 2026-09-30; a record whose standard date is one of the two
\* end dates is judged on its standard date.
C4_OpenWindow ==
    ReachedHYT =>
        LET std == AddYears(M.tafmsd, MAIN_HIGHER_TENURE[M.grade])
            inside == 20231208 < std /\ std < 20260930
        IN /\ main_hyt_in_exemption(std) <=> inside
           /\ hyt_exemption_applies(M) <=> inside
           /\ std \in {20231208, 20260930} => (TenureIneligible <=> std <= Cutoff)

\* C4 witness: the standard date is exactly the start date; the record is
\* tenure-ineligible although its exception date is after the cutoff.
C4_Witness ==
    /\ ReachedHYT
    /\ expected_hyt_date(M.tafmsd, M.grade) = EXCEPTION_HYT_START_DATE
    /\ exception_hyt_date(M.tafmsd, M.grade) > Cutoff
    /\ TenureIneligible

\* C4, the other end: the standard date is exactly the end date.
C4_WitnessEnd ==
    /\ ReachedHYT
    /\ expected_hyt_date(M.tafmsd, M.grade) = EXCEPTION_HYT_END_DATE
    /\ ~hyt_exemption_applies(M)

\* C5: in cycle SSG a record whose standard HYT date is strictly inside the
\* window and whose exception date is after the cutoff is eligible, and the
\* harness's second test member gets an eligible result.
C5_ExemptionEligible ==
    /\ (ReachedHYT /\ cycle = "SSG"
            /\ main_hyt_in_exemption(expected_hyt_date(M.tafmsd, M.grade))
            /\ exception_hyt_date(M.tafmsd, M.grade) > Cutoff)
        => result.category = "ELIGIBLE"
    /\ (pc = "tested" /\ member = test_member_2) => result.eligible

\* C6: in cycle SSG a record whose standard HYT date is before the window and
\* on or before the cutoff is ineligible with a tenure reason, and so are the
\* member of scenario 1 and the harness's first test member.
C6_BeforeWindowIneligible ==
    /\ (ReachedHYT /\ cycle = "SSG"
            /\ expected_hyt_date(M.tafmsd, M.grade) < EXCEPTION_HYT_START_DATE
            /\ expected_hyt_date(M.tafmsd, M.grade) <= Cutoff)
        => TenureIneligible
    /\ (pc = "tested" /\ member \in {test_member_1, scenario_member_1})
        => TenureIneligible

\* The checks a record fails, whatever the order they are applied in.
FailsTIG == fails_tig(M, year)
FailsTIS == fails_tis(M, year)
FailsHYT == fails_hyt(M, cycle, year, cutoff_rule)
FailsRE == fails_re(M)
FailsUIF == fails_uif(M, cycle, year)
FailsAFSC == fails_afsc(M, cycle)

TigReasons == {REASON_TIG, REASON_BTZ}

\* C7: the checks are applied in the order reenlistment code, UIF, AFSC skill
\* level, time in grade, time in service, higher tenure; the reason returned
\* is that of the first check the record fails, and the record is eligible
\* only if it fails none.
C7_CheckOrder ==
    Judged =>
        /\ result.category = "ELIGIBLE" <=>
              ~(FailsRE \/ FailsUIF \/ FailsAFSC \/ FailsTIG \/ FailsTIS \/ FailsHYT)
        /\ FailsRE => result.reason = RE_CODES[M.re_status]
        /\ (~FailsRE /\ FailsUIF) => result.reason = REASON_UIF
        /\ (~FailsRE /\ ~FailsUIF /\ FailsAFSC) => result.reason = REASON_AFSC
        /\ (~FailsRE /\ ~FailsUIF /\ ~FailsAFSC /\ FailsTIG)
              => result.reason \in TigReasons
        /\ (~FailsRE /\ ~FailsUIF /\ ~FailsAFSC /\ ~FailsTIG /\ FailsTIS)
              => result.reason = REASON_TIS
        /\ (~FailsRE /\ ~FailsUIF /\ ~FailsAFSC /\ ~FailsTIG /\ ~FailsTIS /\ FailsHYT)
              => result.reason = REASON_HYT

\* C7 witness: a record that fails the UIF, AFSC, time-in-grade and
\* higher-tenure checks at once and is given the UIF reason.
C7_Witness ==
    /\ Judged
    /\ ~FailsRE /\ FailsUIF /\ FailsAFSC /\ FailsTIG /\ FailsHYT
    /\ result = Ineligible(REASON_UIF)

\* C7, further down the order: AFSC before time in grade before time in service.
C7_WitnessLate ==
    /\ Judged
    /\ ~FailsRE /\ ~FailsUIF /\ ~FailsAFSC /\ FailsTIG /\ FailsTIS
    /\ result.reason \in TigReasons

\* C8: a record that reaches the time-in-grade check passes it exactly when
\* its date of rank is on or before the TIG base date minus
\* TIG_MONTHS_REQUIRED[grade] whole months (for SSG in board year 2024:
\* 1 Aug 2024 less 23 months, 1 Sep 2022); one that fails is BELOW_THE_ZONE
\* when it misses by less than the margin and INELIGIBLE with the TIG reason
\* otherwise, and carries a reason either way.
C8_TimeInGrade ==
    ReachedTIG =>
        LET required ==
                AddMonths(tig_base_date(M.grade, year), 0 - TIG_MONTHS_REQUIRED[M.grade])
            passes == result.reason \notin TigReasons
        IN /\ passes <=> M.date_of_rank <= required
           /\ (M.grade = "SSG" /\ year = 2024) => (passes <=> M.date_of_rank <= 20220901)
           /\ ~passes =>
                /\ result.reason # None
                /\ IF M.date_of_rank < AddMonths(required, BTZ_MARGIN_MONTHS)
                   THEN result = BelowTheZone(REASON_BTZ)
                   ELSE result = Ineligible(REASON_TIG)

\* C8 witness: a date of rank one day after the required date: below the zone.
C8_Witness ==
    /\ ReachedTIG
    /\ M.date_of_rank = NextDay(tig_required_dor(M.grade, year))
    /\ result.category = "BELOW_THE_ZONE"
    /\ result.reason # None

\* C8, the far side of the margin: ineligible with the TIG reason.
C8_WitnessIneligible ==
    /\ ReachedTIG
    /\ M.date_of_rank = AddMonths(tig_required_dor(M.grade, year), BTZ_MARGIN_MONTHS)
    /\ result = Ineligible(REASON_TIG)

\* C9: the TIG base date of an evaluated grade is the grade's TIG month/day,
\* in board_year + 1 when that month is before the grade's closeout month and
\* in board_year when it is after, and it is the first such date on or after
\* the closeout date of the board year.
C9_TigBaseDate ==
    Judged =>
        LET b == tig_base_date(M.grade, year)
            s == scod_date(M.grade, year)
            tig_month == MonthNumber(TIG[M.grade][2])
        IN /\ DayOf(b) = TIG[M.grade][1] /\ MonthOf(b) = tig_month
           /\ tig_month < MonthOf(s) => YearOf(b) = year + 1
           /\ tig_month > MonthOf(s) => YearOf(b) = year
           /\ YearOf(b) \in {year, year + 1}
           /\ s <= b
           /\ AddYears(b, 0 - 1) < s

\* C9 witness: a base date that rolls over to the year after the board year.
C9_Witness ==
    /\ Judged
    /\ YearOf(tig_base_date(M.grade, year)) = year + 1
    /\ MonthNumber(TIG[M.grade][2]) < MonthOf(scod_date(M.grade, year))

\* C9, no rollover: the base month is after the closeout month.
C9_WitnessSameYear ==
    /\ Judged
    /\ YearOf(tig_base_date(M.grade, year)) = year

\* Months of service required by grade: 0.25, 0.5 and 1.25 years are 3, 6 and
\* 15 months, whole years are twelve months each.
TisMonthsExpected ==
    ("AB" :> 3) @@ ("AMN" :> 6) @@ ("A1C" :> 15) @@ ("SRA" :> 36) @@
    ("SSG" :> 60) @@ ("TSG" :> 96) @@ ("MSG" :> 132) @@ ("SMS" :> 168)

C10_WitnessOnDate ==
    /\ ReachedTIS
    /\ tis_date(M.tafmsd, M.grade) = mdos_base_date(M.grade, year)
    /\ result.reason # REASON_TIS

ReachedAFSC == Judged /\ ~FailsRE /\ ~FailsUIF

FifthCharacterIs(afsc, digit) == Len(afsc) >= 5 /\ afsc[5] = digit

PrimaryMatches == FifthCharacterIs(M.pafsc, PAFSC_MAP[cycle])

SecondaryMatches ==
    \E i \in 1..Len(M.secondary) : FifthCharacterIs(M.secondary[i], PAFSC_MAP[cycle])

C11_WitnessNoMatch ==
    /\ ReachedAFSC
    /\ ~PrimaryMatches /\ ~SecondaryMatches
    /\ result = Ineligible(REASON_AFSC)

ReDescriptions == {RE_CODES[c] : c \in DOMAIN RE_CODES}

\* C12: a record whose reenlistment status is a code of RE_CODES is INELIGIBLE
\* with that code's description as its reason ("2A": AFPC Denied
\* Reenlistment; "4N": Convicted, Civil Court.); a record with no code, or
\* with a code that is not in RE_CODES, passes the check.
C12_ReenlistmentCode ==
    Judged =>
        /\ M.re_status = "2A" => result = Ineligible("AFPC Denied Reenlistment")
        /\ M.re_status = "4N" => result = Ineligible("Convicted, Civil Court.")
        /\ M.re_status \in DOMAIN RE_CODES => result = Ineligible(RE_CODES[M.re_status])
        /\ M.re_status \notin DOMAIN RE_CODES => result.reason \notin ReDescriptions

\* C12 witness: a record with code 2A that would also fail the UIF check.
C12_Witness ==
    /\ Judged
    /\ M.re_status = "2A" /\ FailsUIF
    /\ result = Ineligible(RE_CODES["2A"])

\* C12, a code that is not in RE_CODES: the record goes on to the later checks.
C12_WitnessUnknownCode ==
    /\ Judged
    /\ M.re_status = "9Z"
    /\ result.reason \notin ReDescriptions

StandardDate == expected_hyt_date(M.tafmsd, M.grade)

\* C14: the exception years of every grade are at least its standard years,
\* so the exception HYT date of a record is on or after its standard HYT
\* date, and a record that is tenure-ineligible would be tenure-ineligible
\* on its standard date too: the exemption only ever extends eligibility.
C14_ExemptionExtends ==
    /\ pc # "idle" =>
          \A g \in DOMAIN MAIN_HIGHER_TENURE :
              EXCEPTION_HIGHER_TENURE[g] >= MAIN_HIGHER_TENURE[g]
    /\ Judged => exception_hyt_date(M.tafmsd, M.grade) >= StandardDate
    /\ (ReachedHYT /\ TenureIneligible) => StandardDate <= Cutoff

\* C14 witness: a record whose standard date is in the window and on or
\* before the cutoff, eligible through the exemption.
C14_Witness ==
    /\ ReachedHYT
    /\ main_hyt_in_exemption(StandardDate)
    /\ StandardDate <= Cutoff
    /\ exception_hyt_date(M.tafmsd, M.grade) > Cutoff
    /\ result = Eligible

OutsideWindow(tafmsd) == ~main_hyt_in_exemption(expected_hyt_date(tafmsd, M.grade))

LaterRecords ==
    {[member EXCEPT !.tafmsd = strftime(t)] :
        t \in {u \in TafmsdCases(M.grade, cycle, year, cutoff_rule) :
                  u > M.tafmsd /\ OutsideWindow(u)}}

\* C15: of two records of one grade, cycle and board year that differ only in
\* TAFMSD, both with standard HYT dates outside the exemption window, the one
\* with the later TAFMSD passes the higher-tenure check whenever the one with
\* the earlier TAFMSD does.
C15_LaterTafmsdNeverWorse ==
    (ReachedHYT /\ OutsideWindow(M.tafmsd) /\ ~TenureIneligible) =>
        \A later \in LaterRecords :
            /\ ~fails_hyt(parse_row(later), cycle, year, cutoff_rule)
            /\ board_filter(later, cycle, year, cutoff_rule).reason # REASON_HYT

\* C15 witness: a record outside the window that passes the higher-tenure
\* check and has a later record, also outside the window, to compare with.
C15_Witness ==
    /\ ReachedHYT /\ OutsideWindow(M.tafmsd) /\ ~TenureIneligible
    /\ LaterRecords # {}

Accepted ==
    /\ response.status = 200
    /\ response.message = "Upload successful."
    /\ response.session_id \in issued

\* C19: an uploaded roster that has every required column is accepted
\* whichever optional columns it lacks: a session is created, the roster is
\* processed and the response is "Upload successful." with the error log.
C19_OptionalColumnsAccepted ==
    (/\ request.endpoint = "upload"
     /\ request.content_type \in ALLOWED_FILE_TYPES
     /\ request.extension \in {".csv", ".xlsx"}
     /\ REQUIRED_COLUMNS \subseteq request.columns) => Accepted

EligibleIndexes(s) == {i \in 1..Len(s.rows) : Occurrences(s.eligible, i) = 1}

EligibleInUnit(s, unit) ==
    Cardinality({i \in EligibleIndexes(s) : s.rows[i].assigned_pas = unit})

\* C13: after grouping, every eligible row is in exactly one of the per-unit
\* reporting set and the small-unit grouping, and it is in the small-unit
\* grouping exactly when its unit has fewer than 10 eligible rows: a unit
\* with 9 is merged, a unit with 10 is reported standalone.
C13_SmallUnits ==
    \A id \in LiveSessions :
        LET s == sessions[id]
        IN /\ \A i \in EligibleIndexes(s) :
                /\ Occurrences(s.unit_eligible, i)
                      + Occurrences(s.small_unit_df.rows, i) = 1
                /\ Occurrences(s.small_unit_df.rows, i) = 1
                      <=> EligibleInUnit(s, s.rows[i].assigned_pas) < 10
           /\ \A i \in (1..Len(s.rows)) \ EligibleIndexes(s) :
                Occurrences(s.unit_eligible, i)
                    + Occurrences(s.small_unit_df.rows, i) = 0

\* C13 witness: a unit with 9 eligible rows, all in the small-unit grouping,
\* beside a unit with 10, all reported with their unit.
C13_Witness ==
    \E id \in LiveSessions :
        LET s == sessions[id]
        IN /\ EligibleInUnit(s, "U1") = 9
           /\ EligibleInUnit(s, "U2") = 10
           /\ Len(s.small_unit_df.rows) = 9
           /\ Len(s.unit_eligible) = 10

\* The key sets of the policy tables.
PolicyKeys ==
    {DOMAIN SCODS, DOMAIN TIG, DOMAIN TIG_MONTHS_REQUIRED, DOMAIN TAFMSD,
     DOMAIN MDOS, DOMAIN MAIN_HIGHER_TENURE, DOMAIN EXCEPTION_HIGHER_TENURE,
     DOMAIN PAFSC_MAP}

\* The rows of session s that parse and whose grade, or whose run's cycle, is
\* missing from a policy table.
Unconfigured(s) ==
    {i \in 1..Len(s.rows) :
        /\ parse_failure(s.rows[i]) = None
        /\ \E keys \in PolicyKeys : s.rows[i].grade \notin keys \/ s.cycle \notin keys}

\* C20: a row whose grade, or whose run's cycle, is not a key of the policy
\* tables ends in one error-log entry naming the configuration and in no
\* category, and the run goes on: the upload succeeds and every other row is
\* settled.
C20_ConfigurationError ==
    \A id \in LiveSessions :
        LET s == sessions[id]
        IN \A i \in Unconfigured(s) :
            /\ Categorised(s, i) = 0
            /\ Occurrences(s.error_log, i) = 1
            /\ \A k \in 1..Len(s.error_log) :
                  s.error_log[k].row = i => s.error_log[k].reason = REASON_CONFIG
            /\ \A j \in 1..Len(s.rows) :
                  Categorised(s, j) + Occurrences(s.error_log, j) = 1
            /\ response.session_id = id => response.status = 200

\* C20 witness: a row of a grade without a closeout date, in the error log,
\* followed by a row that is given its verdict.
C20_Witness ==
    \E id \in LiveSessions :
        LET s == sessions[id]
        IN /\ Len(s.rows) >= 2
           /\ 1 \in Unconfigured(s)
           /\ KnownCycle(s.cycle)
           /\ Categorised(s, 2) = 1

\* C20, an unknown cycle: every row that parses is in the error log.
C20_WitnessCycle ==
    \E id \in LiveSessions :
        LET s == sessions[id]
        IN /\ ~KnownCycle(s.cycle)
           /\ Unconfigured(s) # {}

\* The documents handed to rendering: the pages of the returned report and
\* the documents in the working directory.
Rendered == Range(response.pdf) \cup disk

\* The tables of a document that are printed under INITIAL_MEL_HEADER_ROW.
HeadedRows(doc) == Range(doc.eligible) \cup Range(doc.btz)

\* The cells of roster row m in the order of the report's columns: name,
\* grade, date arrived station, AFSC, cleartext unit, date of rank, service
\* date, unit code.
ReportCells(m) ==
    <<m.full_name, m.grade, m.date_arrived_station, m.dafsc,
      m.assigned_pas_cleartext, m.date_of_rank, m.tafmsd, m.assigned_pas>>

UnitCodes == Range(UnitOrder)

\* C18 as stated: in every eligible and below-the-zone row handed to report
\* rendering, the 3rd column and the 8th column are the row's unit code.
C18_UnitCodeThirdAndEighth ==
    \A doc \in Rendered : \A r \in HeadedRows(doc) :
        /\ r[3] \in UnitCodes
        /\ r[8] \in UnitCodes
        /\ r[3] = r[8]

\* C18: rows handed to report rendering keep the fixed column order name,
\* grade, date arrived station, AFSC, cleartext unit, date-of-rank, service
\* date, unit-code: in every eligible and below-the-zone row the 8th column
\* is the row's unit code, the one generate_roster_pdf reads, and the 3rd
\* column is the date the member arrived on station, printed under "DAS".
C18_ColumnOrder ==
    /\ INITIAL_MEL_HEADER_ROW[3] = "DAS"
    /\ INITIAL_MEL_HEADER_ROW[8] = "PASCODE"
    /\ \A id \in LiveSessions :
        LET s == sessions[id]
        IN /\ \A k \in 1..Len(s.unit_eligible) :
                eligible_data(s)[k] = ReportCells(s.rows[s.unit_eligible[k].row])
           /\ \A k \in 1..Len(s.btz) :
                btz_data(s)[k] = ReportCells(s.rows[s.btz[k].row])
           /\ \A doc \in Rendered : \A r \in HeadedRows(doc) :
                /\ Len(r) = Len(PDF_COLUMNS)
                /\ \E i \in 1..Len(s.rows) : r = ReportCells(s.rows[i])
                /\ r[8] \in UnitCodes
                /\ r[3] \notin UnitCodes
                /\ doc.kind = "temp" => r[8] = doc.pascode

\* C18 witness: a report is returned whose page has a table of eligible rows.
C18_Witness ==
    /\ response.status = 200
    /\ LiveSessions # {}
    /\ \E k \in 1..Len(response.pdf) : response.pdf[k].eligible # <<>>

\* C18, below the zone: a returned page has a below-the-zone table.
C18_WitnessBtz ==
    /\ response.status = 200
    /\ LiveSessions # {}
    /\ \E k \in 1..Len(response.pdf) : response.pdf[k].btz # <<>>

\* The quota printed on a document.
Quota(doc) == <<doc.mp, doc.pn>>

\* The grade cycles of the policy tables.
GradeCycles == DOMAIN PROMOTION_PERCENT

\* quota(0, cycle) = (0, 0) and no figure is negative, for every cycle and
\* every count up to MaxCount.
QuotaBaseCase ==
    \A c \in GradeCycles :
        /\ get_promotion_eligibility(0, c) = <<0, 0>>
        /\ \A n \in 0..MaxCount :
            LET quota == get_promotion_eligibility(n, c)
            IN quota[1] \in Nat /\ quota[2] \in Nat

C16_WitnessPositive ==
    /\ response.status = 200
    /\ \E k \in 1..Len(response.pdf) :
        /\ response.pdf[k].eligible # <<>>
        /\ response.pdf[k].mp > 0

\* For a fixed cycle neither figure falls from one count to the next, up to
\* MaxCount; so neither falls from any count m to any count n >= m.
QuotaMonotonic ==
    \A c \in GradeCycles : \A n \in 1..MaxCount :
        LET fewer == get_promotion_eligibility(n - 1, c)
            more == get_promotion_eligibility(n, c)
        IN fewer[1] <= more[1] /\ fewer[2] <= more[2]

\* Whatever the percentage, the share of m candidates is at most the share
\* of n >= m candidates.
ShareMonotonic ==
    \A percent \in 0..100 : \A m \in 0..MaxCount : \A n \in m..MaxCount :
        share(m, percent) <= share(n, percent)

C17_WitnessStrict ==
    \E j \in 1..Len(response.pdf) : \E k \in 1..Len(response.pdf) :
        /\ Len(response.pdf[j].eligible) < Len(response.pdf[k].eligible)
        /\ response.pdf[j].mp < response.pdf[k].mp
        /\ response.pdf[j].pn < response.pdf[k].pn

\* A report has been returned for the live session id.
ReportReturned(id) ==
    /\ id \in LiveSessions
    /\ request.endpoint = "submit"
    /\ request.session_id = id
    /\ response.status = 200

\* The pages of the returned report that are the senior rater's section with
\* every small-unit row of session s.
SmallUnitSections(s) ==
    {k \in 1..Len(response.pdf) :
        /\ response.pdf[k].kind = "temp_small_unit"
        /\ response.pdf[k].eligible = small_unit_data(s)}

\* C21: whenever the session's small-unit grouping is non-empty and
\* generate_roster_pdf returns a merged report, the report contains the
\* small-unit (senior rater) section exactly once, with all small-unit rows.
C21_SmallUnitSectionOnce ==
    \A id \in SessionIds :
        (ReportReturned(id) /\ small_unit_data(sessions[id]) # <<>>)
            => Cardinality(SmallUnitSections(sessions[id])) = 1

UploadEndpoints == {"upload", "upload_final"}

\* The step is a request to an upload endpoint.
UploadStep ==
    /\ request'.endpoint \in UploadEndpoints
    /\ request' # request \/ response' # response

\* The uploaded file is of no allowed type, or of no readable extension.
TurnedDown(req) ==
    \/ req.content_type \notin
          {"text/csv", "application/vnd.openxmlformats-officedocument.spreadsheetml.sheet"}
    \/ req.extension \notin {".csv", ".xlsx"}

\* C22: upload_file and upload_final_mel_file reject before touching any
\* state: when the content type is not an allowed one, or the file name ends
\* in neither .csv nor .xlsx, the response is an HTTP 400 error, no session
\* is created or updated and roster_processor is not invoked.
C22_RejectBeforeState ==
    [][(UploadStep /\ TurnedDown(request'))
          => /\ response'.status = 400
             /\ response'.error \in {"Invalid file type. Only CSV or Excel files are allowed.",
                                     "Unsupported file extension."}
             /\ response'.session_id = None
             /\ sessions' = sessions
             /\ issued' = issued
             /\ disk' = disk]_vars

\* C22 witness: an upload of a file of a type that is not allowed has been
\* answered, and no session exists.
C22_Witness ==
    /\ request.endpoint \in UploadEndpoints
    /\ request.content_type = "application/pdf"
    /\ response.status = 400
    /\ issued = {}
    /\ LiveSessions = {}

\* C22, the extension: a final-MEL upload named .txt is turned down while a
\* session is live, and the session is as it was.
C22_WitnessExtension ==
    /\ request.endpoint = "upload_final"
    /\ request.extension = ".txt"
    /\ response.status = 400
    /\ LiveSessions # {}

\* A submission for the live session id that names a senior rater for every
\* unit code of the session has been handled.
Submitted(id) ==
    /\ id \in LiveSessions
    /\ request.endpoint = "submit"
    /\ request.session_id = id
    /\ sessions[id].pascodes \subseteq Keys(request.pascode_info) \ {"small_unit_sr"}

\* The lists of the stored grouping that hold unit code u.
ListsWith(s, u) == {entry \in s.srid_pascode_map : u \in Range(entry[2])}

\* C23: after submit_pascode_info on a live session whose submission gives
\* info for every unit code of the session, the stored srid_pascode_map
\* partitions those unit codes by senior-rater id: every unit code is in
\* exactly one list, under the srid its submitted info names, the union of
\* the lists is the session's unit codes, and the reserved key
\* 'small_unit_sr' is stored as small_unit_sr and never as a unit code of
\* pascode_map.
C23_SeniorRaterPartition ==
    \A id \in SessionIds :
        Submitted(id) =>
            LET s == sessions[id]
                info == request.pascode_info
            IN /\ \A u \in s.pascodes :
                    /\ Cardinality(ListsWith(s, u)) = 1
                    /\ \A entry \in ListsWith(s, u) : entry[1] = Lookup(info, u)
               /\ UNION {Range(entry[2]) : entry \in s.srid_pascode_map} = s.pascodes
               /\ \A entry \in s.srid_pascode_map :
                    /\ Len(entry[2]) = Cardinality(Range(entry[2]))
                    /\ \A other \in s.srid_pascode_map : other[1] = entry[1] => other = entry
               /\ "small_unit_sr" \notin Keys(s.pascode_map)
               /\ s.pascode_map = {pair \in info : pair[1] # "small_unit_sr"}
               /\ "small_unit_sr" \in Keys(info) => s.small_unit_sr = Lookup(info, "small_unit_sr")

\* C23 witness: two unit codes under one senior rater, with a senior rater
\* for the small units.
C23_Witness ==
    \E id \in SessionIds :
        /\ Submitted(id)
        /\ sessions[id].pascodes = {"U1", "U2"}
        /\ sessions[id].srid_pascode_map = {<<"SR1", <<"U1", "U2">>>>}
        /\ sessions[id].small_unit_sr = "SR9"

\* C23, two senior raters: each unit code in the list of its own.
C23_WitnessTwoRaters ==
    \E id \in SessionIds :
        /\ Submitted(id)
        /\ Cardinality(sessions[id].srid_pascode_map) = 2

\* C24: after submit_pascode_info has returned the merged initial-MEL PDF
\* for a session, a download_initial_mel with the same session id, before
\* the session expires, returns that PDF with status 200 and not the 404
\* 'PDF not found for this session'.
C24_DownloadAfterSubmit ==
    [][\A id \in SessionIds :
          (/\ ReportReturned(id)
           /\ request'.endpoint = "download"
           /\ request'.session_id = id)
          => /\ response'.status = 200
             /\ response'.pdf = response.pdf]_vars

\* The step is a request to submit_pascode_info.
SubmitStep ==
    /\ request'.endpoint = "submit"
    /\ request' # request \/ response' # response

\* C25: submit_pascode_info called with a session id that is unknown or whose
\* session has expired ends with the error response 'PDF generation failed'
\* and no report, and raises no unhandled exception, at any point of the
\* upload / expiry / submit sequence.
C25_SubmitWithoutSession ==
    [][(SubmitStep /\ request'.session_id \notin LiveSessions)
          => /\ response'.status = 500
             /\ response'.error = "PDF generation failed"
             /\ response'.pdf = <<>>]_vars

TemporaryKinds == {"temp", "temp_small_unit"}

\* C26: when generate_roster_pdf has returned, with a merged report or with
\* None, every temporary PDF file written during the run, each
\* temp_<pascode>.pdf and the _small_unit.pdf file, has been removed from
\* disk.
C26_TemporaryFilesRemoved ==
    \A doc \in disk : doc.kind \notin TemporaryKinds

=============================================================================
